---- MODULE Spec2Model ----
(***************************************************************************)
(* Room-list filter of libretto (src/js/room_list.js): three tri-state     *)
(* filters (direct, encrypted, unread), three filter buttons and a static  *)
(* list of room cards whose inline display is recomputed on every toggle.  *)
(*                                                                         *)
(* JavaScript values are written as their source literals: null, true and  *)
(* false are the strings "null", "true", "false"; undefined is             *)
(* "undefined"; a JS string keeps its quotes, so the string "true" is      *)
(* "\"true\"".  Strict equality (===) on these primitives is then plain    *)
(* equality of the encodings.                                              *)
(***************************************************************************)
EXTENDS Integers, Sequences, FiniteSets, TLC

\* Largest number of .room-card elements on the page.
MaxCards == 2

\* ------------------------------------------------------------------------
\* JavaScript values

JSnull == "null"
JStrue == "true"
JSfalse == "false"
JSundefined == "undefined"
StrTrue == "\"true\""
StrFalse == "\"false\""
StrEmpty == "\"\""
StrFlex == "\"flex\""
StrNone == "\"none\""

\* a === b on primitives, as a JS boolean
StrictEquals(a, b) == IF a = b THEN JStrue ELSE JSfalse

\* a && b: a when a is falsy, else b (operands here are JS booleans)
LogicalAnd(a, b) == IF a = JSfalse THEN a ELSE b

\* c ? x : y
Conditional(c, x, y) == IF c = JStrue THEN x ELSE y

\* ------------------------------------------------------------------------
\* The page

\* The keys of `filters`; each has its button (direct-rooms, encrypted-rooms,
\* unread-rooms).
FilterNames == {"direct", "encrypted", "unread"}

\* The values a filter takes: null (disabled), true (enabled), false (inverted)
FilterValues == {JSnull, JStrue, JSfalse}

\* What card.dataset.<key> can read: the attribute's string, or undefined
\* when the data- attribute is absent.
DatasetValues == {StrTrue, StrFalse, JSundefined}

\* A .room-card element: its three data- attributes and its inline
\* style.display.
Cards == [isDirect : DatasetValues, isEncrypted : DatasetValues,
          hasUnread : DatasetValues, display : {StrEmpty, StrFlex, StrNone}]

\* A card as the page delivers it: no inline display yet.
LoadedCards == {c \in Cards : c.display = StrEmpty}

\* The delivered cards whose three data- attributes are all present.
TaggedCards ==
    {c \in LoadedCards :
        /\ c.isDirect # JSundefined
        /\ c.isEncrypted # JSundefined
        /\ c.hasUnread # JSundefined}

VARIABLES
    filters,      \* filters[name]: the filter object
    classList,    \* classList[name]: "active"/"inverted" classes of name's button
    roomCards,    \* the NodeList of .room-card elements, in document order
    filterName,   \* argument of the latest toggleFilter call, "none" before any
    pc,           \* where the running click handler stands, "idle" between handlers
    index,        \* position of applyFilters' loop in roomCards, 0 outside the loop
    history,      \* history[name]: what filters[name] was before each of the
                  \* last (at most three) toggles of name, oldest first
    twin,         \* a second session of the same page: its filters, button
                  \* classes and cards
    visited       \* the cards the latest applyFilters loop has been through, in
                  \* the order taken, when the loop is not held to document order

vars == <<filters, classList, roomCards, filterName, pc, index, history, twin, visited>>

\* ------------------------------------------------------------------------
\* Functions of room_list.js

\* Variant: the unread filter starts enabled.
filtersInitUnread ==
    [name \in FilterNames |-> IF name = "unread" THEN JStrue ELSE JSnull]

\* const filters = { direct: null, encrypted: null, unread: null }
filtersInit == [name \in FilterNames |-> JSnull]

\* Variant: the classList.remove call is left out.
updateButtonStylesNoRemove(classes, filter) ==
    LET added1 == IF filter = JStrue THEN classes \cup {"active"} ELSE classes
        added2 == IF filter = JSfalse THEN added1 \cup {"inverted"} ELSE added1
    IN  added2

\* updateButtonStyles(btn, filter): the button's classes afterwards
updateButtonStyles(classes, filter) ==
    LET removed == classes \ {"active", "inverted"}
        added1 == IF filter = JStrue THEN removed \cup {"active"} ELSE removed
        added2 == IF filter = JSfalse THEN added1 \cup {"inverted"} ELSE added1
    IN  added2

\* Variant: an active filter returns the card's flag itself, so an inverted
\* filter selects the same cards as an enabled one.
checkFilterValueOnly(filter, value) ==
    IF filter = JSnull THEN JStrue ELSE value

\* Variant: the guard is "if (!filter) return true", so false counts as disabled.
checkFilterFalsy(filter, value) ==
    IF filter # JStrue THEN JStrue ELSE StrictEquals(filter, value)

\* checkFilter(filter, value)
checkFilter(filter, value) ==
    IF filter = JSnull THEN JStrue ELSE StrictEquals(filter, value)

\* Variant: the comparison is card.dataset.<key> !== "false".
datasetFlagNotFalse(value) == IF value = StrFalse THEN JSfalse ELSE JStrue

\* card.dataset.<key> === "true"
datasetFlag(value) == StrictEquals(value, StrTrue)

\* which data- attribute applyFilters reads for a filter
datasetOf(card, name) ==
    CASE name = "direct" -> card.isDirect
      [] name = "encrypted" -> card.isEncrypted
      [] name = "unread" -> card.hasUnread

\* the showCard expression of applyFilters for one card
showCard(f, card) ==
    LogicalAnd(
        LogicalAnd(checkFilter(f["direct"], datasetFlag(card.isDirect)),
                   checkFilter(f["encrypted"], datasetFlag(card.isEncrypted))),
        checkFilter(f["unread"], datasetFlag(card.hasUnread)))

\* Variant: a card that fails the filters has its display flipped, not set.
applyCardFlip(f, card) ==
    [card EXCEPT !.display =
        Conditional(showCard(f, card), StrFlex,
                    IF card.display = StrNone THEN StrFlex ELSE StrNone)]

\* Variant: a card that passes the filters keeps the display it has, so a
\* hidden card is never brought back.
applyCardHideOnly(f, card) ==
    [card EXCEPT !.display = Conditional(showCard(f, card), card.display, StrNone)]

\* the loop body of applyFilters: the card after its display is set
applyCard(f, card) ==
    [card EXCEPT !.display = Conditional(showCard(f, card), StrFlex, StrNone)]

\* Variant: the loop stops one card short.
applyFiltersSkipLast(f, cards) ==
    [i \in DOMAIN cards |-> IF i < Len(cards) THEN applyCard(f, cards[i]) ELSE cards[i]]

\* Variant: a card that fails the filters is taken out of the list
\* (card.remove()) instead of hidden.
applyFiltersRemove(f, cards) ==
    LET RECURSIVE kept(_)
        kept(rest) ==
            IF rest = <<>> THEN <<>>
            ELSE IF showCard(f, Head(rest)) = JStrue
                 THEN <<applyCard(f, Head(rest))>> \o kept(Tail(rest))
                 ELSE kept(Tail(rest))
    IN  kept(cards)

\* applyFilters(): the card list after the loop over all cards
applyFilters(f, cards) == [i \in DOMAIN cards |-> applyCard(f, cards[i])]

\* Variant: the cycle runs backwards, null -> false -> true -> null.
nextFilterReversed(filter) ==
    IF filter = JSnull THEN JSfalse
    ELSE IF filter = JSfalse THEN JStrue
    ELSE JSnull

\* Variant: the final else goes back to true, so null is never restored.
nextFilterNoReset(filter) ==
    IF filter = JSnull THEN JStrue
    ELSE IF filter = JStrue THEN JSfalse
    ELSE JStrue

\* the if / else if / else of toggleFilter: null -> true -> false -> null
nextFilter(filter) ==
    IF filter = JSnull THEN JStrue
    ELSE IF filter = JStrue THEN JSfalse
    ELSE JSnull

\* Variant: toggling one filter disables the other two.
toggledFiltersExclusive(f, name) ==
    [n \in FilterNames |-> IF n = name THEN nextFilter(f[n]) ELSE JSnull]

\* the filter object after toggleFilter's assignment to filters[name]
toggledFilters(f, name) == [f EXCEPT ![name] = nextFilter(f[name])]

\* ------------------------------------------------------------------------
\* Atomic specification: one action per click handler

\* The page as loaded: filters as declared, buttons without "active" or
\* "inverted", cards without inline display, no handler running.
InitPage(cardSet) ==
    /\ filters = filtersInit
    /\ classList = [name \in FilterNames |-> {}]
    /\ roomCards \in UNION {[1..n -> cardSet] : n \in 0..MaxCards}
    /\ filterName = "none"
    /\ pc = "idle"
    /\ index = 0
    /\ history = [name \in FilterNames |-> <<>>]
    /\ twin = [filters |-> filters, classList |-> classList, roomCards |-> roomCards]
    /\ visited = <<>>

Init == InitPage(LoadedCards)

\* Variant: the new filter value is styled onto all three buttons.
toggleFilterAllButtons(name) ==
    /\ filters' = toggledFilters(filters, name)
    /\ classList' = [n \in FilterNames |->
                        updateButtonStyles(classList[n], filters'[name])]
    /\ roomCards' = applyFilters(filters', roomCards)
    /\ filterName' = name

\* toggleFilter(name, btn), start to end
toggleFilter(name) ==
    /\ filters' = toggledFilters(filters, name)
    /\ classList' = [classList EXCEPT
                        ![name] = updateButtonStyles(classList[name], filters'[name])]
    /\ roomCards' = applyFilters(filters', roomCards)
    /\ filterName' = name

\* The click listeners: each runs toggleFilter for its button.
ClickDirect == toggleFilter("direct") /\ UNCHANGED <<pc, index, history, twin, visited>>
ClickEncrypted == toggleFilter("encrypted") /\ UNCHANGED <<pc, index, history, twin, visited>>
ClickUnread == toggleFilter("unread") /\ UNCHANGED <<pc, index, history, twin, visited>>

Next == ClickDirect \/ ClickEncrypted \/ ClickUnread

Spec == Init /\ [][Next]_vars

\* The atomic specification over cards that carry all three data- attributes.
SpecTagged == InitPage(TaggedCards) /\ [][Next]_vars

\* ------------------------------------------------------------------------
\* The atomic specification with the record of earlier filter values

\* history after a toggle of name: the value before it appended, the
\* oldest dropped once three are kept
recorded(name) ==
    LET all == Append(history[name], filters[name])
    IN  [history EXCEPT ![name] = IF Len(all) > 3 THEN Tail(all) ELSE all]

ClickDirectRecorded ==
    toggleFilter("direct") /\ history' = recorded("direct") /\ UNCHANGED <<pc, index, twin, visited>>
ClickEncryptedRecorded ==
    toggleFilter("encrypted") /\ history' = recorded("encrypted") /\ UNCHANGED <<pc, index, twin, visited>>
ClickUnreadRecorded ==
    toggleFilter("unread") /\ history' = recorded("unread") /\ UNCHANGED <<pc, index, twin, visited>>

NextRecorded == ClickDirectRecorded \/ ClickEncryptedRecorded \/ ClickUnreadRecorded

SpecRecorded == InitPage(TaggedCards) /\ [][NextRecorded]_vars

\* ------------------------------------------------------------------------
\* Two sessions of the same page, each clicked on its own

\* toggleFilter(name, btn), start to end, on a page given as a record of
\* its filters, button classes and cards
toggleFilterOn(page, name) ==
    LET toggled == toggledFilters(page.filters, name)
    IN  [filters |-> toggled,
         classList |-> [page.classList EXCEPT
                            ![name] = updateButtonStyles(page.classList[name], toggled[name])],
         roomCards |-> applyFilters(toggled, page.roomCards)]

\* a click listener of the second session
TwinClick(name) ==
    /\ twin' = toggleFilterOn(twin, name)
    /\ UNCHANGED <<filters, classList, roomCards, filterName, pc, index, history, visited>>

TwinClickDirect == TwinClick("direct")
TwinClickEncrypted == TwinClick("encrypted")
TwinClickUnread == TwinClick("unread")

NextPair ==
    \/ ClickDirect
    \/ ClickEncrypted
    \/ ClickUnread
    \/ TwinClickDirect
    \/ TwinClickEncrypted
    \/ TwinClickUnread

SpecPair == InitPage(TaggedCards) /\ [][NextPair]_vars

\* ------------------------------------------------------------------------
\* Stepwise specification: a click handler as the statements it runs

\* Variant: applyFilters yields to the event loop between cards, so a
\* click can be dispatched while the loop is under way.
canDispatchInLoop == pc \in {"idle", "applyFilters"}

\* A click listener is dispatched only when no handler is running: the
\* listeners are synchronous functions and run to completion.
canDispatch == pc = "idle"

\* the listener starts and toggleFilter assigns filters[name]
Dispatch(name) ==
    /\ canDispatch
    /\ filters' = toggledFilters(filters, name)
    /\ filterName' = name
    /\ pc' = "updateButtonStyles"
    /\ UNCHANGED <<classList, roomCards, index, history, twin, visited>>

DispatchDirect == Dispatch("direct")
DispatchEncrypted == Dispatch("encrypted")
DispatchUnread == Dispatch("unread")

\* updateButtonStyles(btn, filters[filterName]); applyFilters is entered
StyleStep ==
    /\ pc = "updateButtonStyles"
    /\ classList' = [classList EXCEPT
            ![filterName] = updateButtonStyles(classList[filterName], filters[filterName])]
    /\ pc' = "applyFilters"
    /\ index' = 1
    /\ UNCHANGED <<filters, roomCards, filterName, history, twin, visited>>

\* Variant: the first comparison of the loop body is written with = for
\* ===, so it assigns the card's flag to filters.direct.
LoopStepAssigns ==
    /\ pc = "applyFilters"
    /\ index <= Len(roomCards)
    /\ filters' = [filters EXCEPT !["direct"] = datasetFlag(roomCards[index].isDirect)]
    /\ roomCards' = [roomCards EXCEPT ![index] = applyCard(filters', roomCards[index])]
    /\ index' = index + 1
    /\ UNCHANGED <<classList, filterName, pc, history, twin, visited>>

\* Variant: the loop does not move on to the next card.
LoopStepNoAdvance ==
    /\ pc = "applyFilters"
    /\ index <= Len(roomCards)
    /\ roomCards' = [roomCards EXCEPT ![index] = applyCard(filters, roomCards[index])]
    /\ UNCHANGED <<filters, classList, filterName, pc, index, history, twin, visited>>

\* one iteration of for (const card of roomCards)
LoopStep ==
    /\ pc = "applyFilters"
    /\ index <= Len(roomCards)
    /\ roomCards' = [roomCards EXCEPT ![index] = applyCard(filters, roomCards[index])]
    /\ index' = index + 1
    /\ UNCHANGED <<filters, classList, filterName, pc, history, twin, visited>>

\* the loop is exhausted; applyFilters, toggleFilter and the listener return
Return ==
    /\ pc = "applyFilters"
    /\ index > Len(roomCards)
    /\ pc' = "idle"
    /\ index' = 0
    /\ UNCHANGED <<filters, classList, roomCards, filterName, history, twin, visited>>

NextSteps ==
    \/ DispatchDirect
    \/ DispatchEncrypted
    \/ DispatchUnread
    \/ StyleStep
    \/ LoopStep
    \/ Return

SpecSteps == InitPage(TaggedCards) /\ [][NextSteps]_vars

\* A handler that has started keeps running: its statements are synchronous
\* and the engine executes them one after another until the listener
\* returns.  Nothing obliges a click to happen.
SpecStepsFair ==
    /\ SpecSteps
    /\ WF_vars(StyleStep)
    /\ WF_vars(LoopStep)
    /\ WF_vars(Return)

\* ------------------------------------------------------------------------
\* The stepwise handler with the loop of applyFilters free to take the cards
\* in any order, beside a second session that takes every click in document
\* order

\* Variant: the loop body writes the display of the first card of the list
\* instead of the card it is at.
visitFirst(f, cards, i) ==
    [cards EXCEPT ![1] =
        [@ EXCEPT !.display = Conditional(showCard(f, cards[i]), StrFlex, StrNone)]]

\* the loop body of applyFilters run on card i of the list
visit(f, cards, i) == [cards EXCEPT ![i] = applyCard(f, cards[i])]

\* the positions of the list in the sequence of visits
Range(seq) == {seq[k] : k \in DOMAIN seq}

\* the listener starts in both sessions; the second runs it to its end
DispatchBoth(name) ==
    /\ canDispatch
    /\ filters' = toggledFilters(filters, name)
    /\ filterName' = name
    /\ pc' = "updateButtonStyles"
    /\ twin' = toggleFilterOn(twin, name)
    /\ UNCHANGED <<classList, roomCards, index, history, visited>>

DispatchBothDirect == DispatchBoth("direct")
DispatchBothEncrypted == DispatchBoth("encrypted")
DispatchBothUnread == DispatchBoth("unread")

\* updateButtonStyles(btn, filters[filterName]); applyFilters is entered
\* with no card visited
StyleStepAnyOrder ==
    /\ pc = "updateButtonStyles"
    /\ classList' = [classList EXCEPT
            ![filterName] = updateButtonStyles(classList[filterName], filters[filterName])]
    /\ pc' = "applyFilters"
    /\ visited' = <<>>
    /\ UNCHANGED <<filters, roomCards, filterName, index, history, twin>>

\* one iteration of the loop, on any card not visited yet
VisitStep ==
    /\ pc = "applyFilters"
    /\ \E i \in DOMAIN roomCards \ Range(visited) :
        /\ roomCards' = visit(filters, roomCards, i)
        /\ visited' = Append(visited, i)
    /\ UNCHANGED <<filters, classList, filterName, pc, index, history, twin>>

\* every card has been visited; applyFilters, toggleFilter and the listener
\* return
ReturnAnyOrder ==
    /\ pc = "applyFilters"
    /\ Range(visited) = DOMAIN roomCards
    /\ pc' = "idle"
    /\ UNCHANGED <<filters, classList, roomCards, filterName, index, history, twin, visited>>

NextAnyOrder ==
    \/ DispatchBothDirect
    \/ DispatchBothEncrypted
    \/ DispatchBothUnread
    \/ StyleStepAnyOrder
    \/ VisitStep
    \/ ReturnAnyOrder

SpecAnyOrder == InitPage(TaggedCards) /\ [][NextAnyOrder]_vars

\* ------------------------------------------------------------------------
\* Vocabulary of the properties

\* The card is on display: its inline display is not "none".
Shown(card) == card.display # StrNone

\* The card's tag for a filter: the data- attribute reads "true".
Tag(card, name) == datasetOf(card, name) = StrTrue

\* The filter's constraint on one card: disabled, or enabled and the card
\* is tagged, or inverted and the card is not tagged.
Admits(f, card, name) ==
    \/ f[name] = JSnull
    \/ f[name] = JStrue /\ Tag(card, name)
    \/ f[name] = JSfalse /\ ~Tag(card, name)

\* The successor of a filter value on the cycle disabled -> enabled ->
\* inverted -> disabled.
CycleSuccessor(v) ==
    CASE v = JSnull -> JStrue
      [] v = JStrue -> JSfalse
      [] v = JSfalse -> JSnull

\* The classes a button must carry for a filter value.
MarkerOf(v) ==
    CASE v = JSnull -> {}
      [] v = JStrue -> {"active"}
      [] v = JSfalse -> {"inverted"}

CardIndexes == DOMAIN roomCards

\* ------------------------------------------------------------------------
\* Properties

\* C1: in every reachable state, the initial one included, a card is shown
\* exactly when each of the three filters is disabled, or enabled with the
\* card's tag true, or inverted with the card's tag false.
C1_VisibilityIsConjunction ==
    \A i \in CardIndexes :
        Shown(roomCards[i]) <=>
            \A name \in FilterNames : Admits(filters, roomCards[i], name)

\* A toggle has run, two filters constrain the list, and the list holds a
\* shown card and a hidden card.
C1_Witness ==
    /\ filterName # "none"
    /\ Cardinality({name \in FilterNames : filters[name] # JSnull}) = 2
    /\ \E i, j \in CardIndexes : Shown(roomCards[i]) /\ ~Shown(roomCards[j])

\* C2: a toggle of a filter moves that filter one step along the cycle
\* disabled -> enabled -> inverted -> disabled, and no step changes any
\* filter in another way.
C2_ToggleStepsCycle ==
    [][/\ filters'[filterName'] = CycleSuccessor(filters[filterName'])
       /\ \A name \in FilterNames :
            filters'[name] # filters[name] =>
                filters'[name] = CycleSuccessor(filters[name])]_vars

\* The direct filter has gone round the whole cycle: its latest toggle
\* took it from inverted back to disabled.
C2_Witness ==
    /\ filterName = "direct"
    /\ filters["direct"] = JSnull
    /\ classList["direct"] = {}
    /\ \E i \in CardIndexes : roomCards[i].display = StrFlex

\* C3: for every card and every mapping of filter values, the visibility the
\* program computes (showCard) is true exactly when every filter admits the
\* card.
C3_ShowCardIffAdmitted ==
    \A i \in CardIndexes :
        (showCard(filters, roomCards[i]) = JStrue) <=>
            \A name \in FilterNames : Admits(filters, roomCards[i], name)

\* Scenario C: direct enabled and encrypted inverted over the cards
\* {direct, not encrypted, unread} and {not direct, encrypted, read}; the
\* first is computed visible, the second is not.
C3_Witness ==
    /\ filters = [direct |-> JStrue, encrypted |-> JSfalse, unread |-> JSnull]
    /\ Len(roomCards) = 2
    /\ Tag(roomCards[1], "direct") /\ ~Tag(roomCards[1], "encrypted")
    /\ Tag(roomCards[1], "unread")
    /\ ~Tag(roomCards[2], "direct") /\ Tag(roomCards[2], "encrypted")
    /\ ~Tag(roomCards[2], "unread")
    /\ showCard(filters, roomCards[1]) = JStrue
    /\ showCard(filters, roomCards[2]) = JSfalse

\* C4: three consecutive toggles of one filter, toggles of the other filters
\* allowed in between, bring that filter back to the value it had before
\* them.
C4_ThreeTogglesRestore ==
    \A name \in FilterNames :
        Len(history[name]) = 3 => filters[name] = history[name][1]

\* The unread filter was toggled three times starting from disabled, while
\* another filter was toggled to a different value.
C4_Witness ==
    /\ history["unread"] = <<JSnull, JStrue, JSfalse>>
    /\ filters["unread"] = JSnull
    /\ Len(history["direct"]) = 1
    /\ filterName = "unread"

\* C5: a toggle of one filter leaves the other two filters as they were.
C5_OtherFiltersUnchanged ==
    [][\A name \in FilterNames \ {filterName'} :
            filters'[name] = filters[name]]_vars

\* The encrypted filter was the last one toggled while direct and unread
\* hold values that are not the initial one.
C5_Witness ==
    /\ filterName = "encrypted"
    /\ filters["direct"] = JSfalse
    /\ filters["unread"] = JStrue

\* C6: each button's classes match its filter: none of the two for
\* disabled, only "active" for enabled, only "inverted" for inverted; the
\* two are never both present.
C6_ButtonMarkerMatchesFilter ==
    \A name \in FilterNames :
        /\ classList[name] = MarkerOf(filters[name])
        /\ ~({"active", "inverted"} \subseteq classList[name])

\* The three buttons show the three markers, the neutral one on a button
\* that has been both active and inverted before.
C6_Witness ==
    /\ classList = [direct |-> {"active"}, encrypted |-> {"inverted"}, unread |-> {}]
    /\ filterName = "unread"

\* C7: whenever a click handler can start, every card reflects the current
\* filters: no card is left as an earlier filter state had it.
C7_NoPartialUpdateAtDispatch ==
    canDispatch =>
        \A i \in CardIndexes :
            Shown(roomCards[i]) <=>
                \A name \in FilterNames : Admits(filters, roomCards[i], name)

\* A handler has returned after changing the display of two cards in
\* different ways.
C7_Witness ==
    /\ pc = "idle"
    /\ filterName # "none"
    /\ Len(roomCards) >= 2
    /\ roomCards[1].display = StrNone
    /\ roomCards[2].display = StrFlex

\* C8: once applyFilters has run, running it again without a toggle in
\* between leaves every card shown or hidden as the first run left it.
C8_ApplyFiltersIdempotent ==
    LET first == applyFilters(filters, roomCards)
        second == applyFilters(filters, first)
    IN  /\ \A i \in CardIndexes : Shown(second[i]) <=> Shown(first[i])
        /\ filterName # "none" =>
            \A i \in CardIndexes : Shown(first[i]) <=> Shown(roomCards[i])

\* applyFilters has run in a toggle and hid one card and showed another,
\* under a filter that is inverted.
C8_Witness ==
    /\ filterName # "none"
    /\ \E name \in FilterNames : filters[name] = JSfalse
    /\ \E i, j \in CardIndexes :
        roomCards[i].display = StrNone /\ roomCards[j].display = StrFlex

\* The filters other than one admit the card.
AdmittedByOthers(f, card, name) ==
    \A other \in FilterNames \ {name} : Admits(f, card, other)

\* C9: a card that lacks the data- attribute of a filter is hidden when that
\* filter is enabled, and when the filter is inverted or disabled the card
\* is shown exactly when the other two filters admit it.
C9_MissingTagIsFalse ==
    \A i \in CardIndexes : \A name \in FilterNames :
        datasetOf(roomCards[i], name) = JSundefined =>
            /\ filters[name] = JStrue => ~Shown(roomCards[i])
            /\ filters[name] # JStrue =>
                (Shown(roomCards[i]) <=> AdmittedByOthers(filters, roomCards[i], name))

\* A card without the encrypted attribute is shown under an inverted
\* encrypted filter, and a card without the direct attribute is hidden
\* under an enabled direct filter.
C9_Witness ==
    /\ filters["encrypted"] = JSfalse
    /\ filters["direct"] = JStrue
    /\ \E i \in CardIndexes :
        roomCards[i].isEncrypted = JSundefined /\ roomCards[i].display = StrFlex
    /\ \E j \in CardIndexes :
        roomCards[j].isDirect = JSundefined /\ roomCards[j].display = StrNone

\* C10: before any toggle, all three filters are disabled.
C10_FreshSessionUnset ==
    filterName = "none" => \A name \in FilterNames : filters[name] = JSnull

\* The page as loaded, with cards on it and no toggle run yet.
C10_Witness ==
    /\ filterName = "none"
    /\ roomCards # <<>>
    /\ \A i \in CardIndexes : roomCards[i].display = StrEmpty

\* C11: whenever a toggle leaves all three filters disabled, every card is
\* shown, whatever its tags.
C11_AllUnsetShowsAll ==
    (filterName # "none" /\ \A name \in FilterNames : filters[name] = JSnull) =>
        \A i \in CardIndexes : Shown(roomCards[i])

\* Scenario D: over the cards {direct, not encrypted, unread} and {not
\* direct, encrypted, read}, the direct filter has been toggled back to
\* disabled and applyFilters has set both cards to "flex".
C11_Witness ==
    /\ filterName = "direct"
    /\ \A name \in FilterNames : filters[name] = JSnull
    /\ Len(roomCards) = 2
    /\ roomCards[1] = [isDirect |-> StrTrue, isEncrypted |-> StrFalse,
                       hasUnread |-> StrTrue, display |-> StrFlex]
    /\ roomCards[2] = [isDirect |-> StrFalse, isEncrypted |-> StrTrue,
                       hasUnread |-> StrFalse, display |-> StrFlex]

\* C12: two sessions over the same cards whose filters have come to the same
\* values show and hide the same cards, whatever sequence of toggles each
\* went through.
C12_NoHiddenState ==
    twin.filters = filters =>
        \A i \in CardIndexes : Shown(twin.roomCards[i]) <=> Shown(roomCards[i])

\* The sessions agree on their filters after different histories: the
\* first has run no toggle at all, the second has toggled its filters round
\* to disabled again and its applyFilters has set the cards' display.
C12_Witness ==
    /\ twin.filters = filters
    /\ filterName = "none"
    /\ Len(roomCards) = MaxCards
    /\ \A i \in CardIndexes :
        roomCards[i].display = StrEmpty /\ twin.roomCards[i].display = StrFlex

\* C13: when a handler whose loop took the cards in an arbitrary order has
\* returned, every card is shown or hidden exactly as in a session that took
\* the same clicks with the loop in document order.
C13_OrderIndependent ==
    canDispatch =>
        /\ twin.filters = filters
        /\ \A i \in CardIndexes : Shown(roomCards[i]) <=> Shown(twin.roomCards[i])

\* A handler has returned whose loop went through the list backwards and
\* hid one card and showed another.
C13_Witness ==
    /\ pc = "idle"
    /\ Len(roomCards) = MaxCards
    /\ visited = [k \in 1..MaxCards |-> MaxCards + 1 - k]
    /\ roomCards[1].display = StrNone
    /\ roomCards[MaxCards].display = StrFlex

\* The three data- attributes of a card.
Dataset(card) ==
    [isDirect |-> card.isDirect, isEncrypted |-> card.isEncrypted,
     hasUnread |-> card.hasUnread]

\* C14: no step adds a card, removes a card or changes a card's data-
\* attributes; only the display of cards changes.
C14_CardsAndTagsFixed ==
    [][/\ Len(roomCards') = Len(roomCards)
       /\ \A i \in CardIndexes : Dataset(roomCards'[i]) = Dataset(roomCards[i])]_vars

\* The list is full and toggles have run on it: of its cards, which all
\* started without a display, one is now hidden and one is set to "flex".
C14_Witness ==
    /\ Len(roomCards) = MaxCards
    /\ filterName = "encrypted"
    /\ \E i, j \in CardIndexes :
        /\ roomCards[i].display = StrNone /\ roomCards[i].isEncrypted = JSundefined
        /\ roomCards[j].display = StrFlex

\* C15: a started handler finishes; the loop updates one card per iteration,
\* the card it is at, and when the handler returns the number of card
\* updates equals the number of cards, every card has had its display set
\* and the toggled button carries the marker of its filter.
C15_ToggleRunsToCompletion ==
    /\ (pc # "idle") ~> (pc = "idle")
    /\ [][(pc = "applyFilters" /\ pc' = "applyFilters") =>
            /\ index' = index + 1
            /\ \A i \in CardIndexes \ {index} : roomCards'[i] = roomCards[i]]_vars
    /\ [][(pc # "idle" /\ pc' = "idle") =>
            /\ index - 1 = Len(roomCards)
            /\ \A i \in CardIndexes : roomCards[i] = applyCard(filters, roomCards[i])
            /\ classList[filterName] = MarkerOf(filters[filterName])]_vars

\* A handler for the unread button has returned on a full list: the filter
\* is inverted, the button is marked so, and no card is left without a
\* display.
C15_Witness ==
    /\ pc = "idle"
    /\ index = 0
    /\ filterName = "unread"
    /\ filters["unread"] = JSfalse
    /\ classList["unread"] = {"inverted"}
    /\ Len(roomCards) = MaxCards
    /\ \A i \in CardIndexes : roomCards[i].display # StrEmpty

\* C16: the filters are changed only by the assignment at the start of
\* toggleFilter: the steps of updateButtonStyles and of applyFilters, and
\* the return, leave all three filters as they are.
C16_OnlyToggleChangesFilters ==
    [][pc # "idle" => filters' = filters]_vars

\* updateButtonStyles has run and applyFilters is past its first card while
\* two filters are set.
C16_Witness ==
    /\ pc = "applyFilters"
    /\ index > 1
    /\ filters[filterName] = JSfalse
    /\ \E name \in FilterNames \ {filterName} : filters[name] = JStrue
    /\ classList[filterName] = {"inverted"}

\* The page of the first session as a record.
Page == [filters |-> filters, classList |-> classList, roomCards |-> roomCards]

\* C17: from every reachable state, toggling two different filters in one
\* order or the other ends in the same filters, the same button classes and
\* the same display of every card.
C17_TogglesCommute ==
    \A d1, d2 \in FilterNames :
        d1 # d2 =>
            toggleFilterOn(toggleFilterOn(Page, d1), d2) =
                toggleFilterOn(toggleFilterOn(Page, d2), d1)

\* Toggles have run, and from here a toggle of direct and a toggle of
\* encrypted lead through states that differ in which cards they hide, to a
\* common state that hides a card and shows another.
C17_Witness ==
    LET viaDirect == toggleFilterOn(Page, "direct")
        viaEncrypted == toggleFilterOn(Page, "encrypted")
        both == toggleFilterOn(viaDirect, "encrypted")
    IN  /\ filterName = "unread"
        /\ filters["direct"] # JSnull
        /\ \E i \in CardIndexes :
            Shown(viaDirect.roomCards[i]) # Shown(viaEncrypted.roomCards[i])
        /\ \E i, j \in CardIndexes :
            Shown(both.roomCards[i]) /\ ~Shown(both.roomCards[j])

\* The card is computed visible with the filter name set to v and the other
\* two filters as they are.
VisibleWith(card, name, v) == showCard([filters EXCEPT ![name] = v], card) = JStrue

\* Enabled and inverted split the cards visible with the filter disabled.
Partitioned ==
    \A name \in FilterNames : \A i \in CardIndexes :
        /\ ~(VisibleWith(roomCards[i], name, JStrue) /\ VisibleWith(roomCards[i], name, JSfalse))
        /\ VisibleWith(roomCards[i], name, JSnull) <=>
            (VisibleWith(roomCards[i], name, JStrue) \/ VisibleWith(roomCards[i], name, JSfalse))

\* C18: with the other two filters fixed, the cards shown with a filter
\* enabled and those shown with it inverted are disjoint and together are
\* the cards shown with it disabled; so a toggle from disabled to enabled
\* reveals no hidden card and a toggle from inverted to disabled hides no
\* shown card.
C18_RequireExcludePartition ==
    [][/\ Partitioned
       /\ Partitioned'
       /\ (filters[filterName'] = JSnull /\ filters'[filterName'] = JStrue) =>
            \A i \in CardIndexes : Shown(roomCards'[i]) => Shown(roomCards[i])
       /\ (filters[filterName'] = JSfalse /\ filters'[filterName'] = JSnull) =>
            \A i \in CardIndexes : Shown(roomCards[i]) => Shown(roomCards'[i])]_vars

\* The encrypted filter has just gone from inverted to disabled under an
\* enabled direct filter: an encrypted direct card, hidden before, is shown
\* again, a direct card that is not encrypted stays shown, and a card that
\* is not direct stays hidden.
C18_Witness ==
    /\ filterName = "encrypted"
    /\ filters = [direct |-> JStrue, encrypted |-> JSnull, unread |-> JSnull]
    /\ \E i \in CardIndexes : Shown(roomCards[i]) /\ Tag(roomCards[i], "encrypted")
    /\ \E j \in CardIndexes : ~Shown(roomCards[j])

\* C19: a toggle changes the classes of the toggled filter's button only; the
\* classes of the other two buttons stay as they were.
C19_OtherButtonsUnchanged ==
    [][\A name \in FilterNames \ {filterName'} :
            classList'[name] = classList[name]]_vars

\* The unread button was the last one toggled and is active, while the
\* direct button is still inverted and the encrypted button still active
\* from earlier toggles.
C19_Witness ==
    /\ filterName = "unread"
    /\ classList = [direct |-> {"inverted"}, encrypted |-> {"active"},
                    unread |-> {"active"}]

====
